---- MODULE Spec2Model ----
(***************************************************************************)
(* The n-coalescent process (src/src/coalescent.rs) and the Genealogy it   *)
(* samples (src/src/genealogy.rs).                                         *)
(*                                                                         *)
(* Conventions of the model                                                *)
(*  - element indices are 0-based as in the source; TLA+ sequences are     *)
(*    1-based, so path[i] of the source is path[i + 1] here and            *)
(*    value_indexes[0], value_indexes[1] are pair[1], pair[2];             *)
(*  - a PartitionVec<()> is the union-find forest the partitions crate     *)
(*    keeps: parent pointers and ranks (union by rank; the coalescent only *)
(*    ever unites roots, so path compression never changes a parent);      *)
(*  - a random source is a state of a small linear congruential generator; *)
(*    every sample taken from it (one exponential variate, one uniform     *)
(*    index) reads the state and advances it by one step;                  *)
(*  - an f64 waiting time is an exact multiple of 1 / TimeScale, so sums   *)
(*    and products of times are exact (no rounding is modelled);           *)
(*  - a Rust panic sets panicked and ends the run.                         *)
(***************************************************************************)
EXTENDS Integers, Sequences, FiniteSets, TLC

\* Largest group_size a process is constructed with.
MaxN == 3
\* Number of states of the random source.
RngMod == 8
\* Number of distinct values the unit-rate exponential variate takes.
TimeLevels == 2

VARIABLES
    state,      \* Coalescent.state: the partition of the process
    rng,        \* Coalescent.rng: the random source the process owns
    ext,        \* the caller's random source, lent to sample_path / sample_genealogy
    last,       \* the last call on the process: its name, what it read, what it returned
    genealogy,  \* the Genealogy the caller holds, an Option (<<>> before the first sample)
    answer,     \* the last query on the held Genealogy and its result
    panicked,   \* a call has panicked
    twin,       \* a second process, constructed like the first (SpecPair only)
    shared      \* the groups of sources that are handles to one generator (as
                \* rand::thread_rng()): a clone draws from the generator it was
                \* cloned from. A source in no group is a value (as Pcg32).

vars == <<state, rng, ext, last, genealogy, answer, panicked, twin, shared>>

-----------------------------------------------------------------------------
(* PartitionVec<()> of the partitions crate, as the source uses it.        *)

\* PartitionVec::from_iter((0..group_size).map(|_| ())): group_size singletons.
Singletons(group_size) ==
    [parent |-> [i \in 0..(group_size - 1) |-> i],
     rank   |-> [i \in 0..(group_size - 1) |-> 0]]

\* PartitionVec::len: the number of elements.
len(p) == Cardinality(DOMAIN p.parent)

RECURSIVE Find(_, _)
\* The root of the tree of element i.
Find(p, i) == IF p.parent[i] = i THEN i ELSE Find(p, p.parent[i])

\* PartitionVec::same_set.
same_set(p, a, b) == Find(p, a) = Find(p, b)

\* The members of the set of element i.
SetOf(p, i) == {j \in DOMAIN p.parent : same_set(p, i, j)}

\* Mutant: the size of the whole partition stands for the size of the set.
len_of_set_counts_all(p, i) == len(p)

\* PartitionVec::len_of_set.
len_of_set(p, i) == Cardinality(SetOf(p, i))

\* The partition as a set of sets of indices.
Blocks(p) == {SetOf(p, i) : i \in DOMAIN p.parent}

\* The roots of the forest, one per set.
Roots(p) == {i \in DOMAIN p.parent : p.parent[i] = i}

\* PartitionVec::amount_of_sets.
amount_of_sets(p) == Cardinality(Roots(p))

RECURSIVE Ancestors(_, _)
\* Element i and the elements above it, the root left out.
Ancestors(p, i) == IF p.parent[i] = i THEN {} ELSE {i} \cup Ancestors(p, p.parent[i])

\* PartitionVec::find as union calls it: every element on the way to the root
\* is put under the root.
find(p, index) ==
    [p EXCEPT !.parent = [k \in DOMAIN p.parent |->
                            IF k \in Ancestors(p, index) THEN Find(p, index)
                            ELSE p.parent[k]]]

\* PartitionVec::union: the two roots are found and linked by rank; with equal
\* ranks the first tree goes under the second, whose rank grows.
union(p, first_index, second_index) ==
    LET found == find(find(p, first_index), second_index)
        i == Find(p, first_index)
        j == Find(p, second_index)
    IN  IF i = j THEN found
        ELSE IF p.rank[i] < p.rank[j]
             THEN [found EXCEPT !.parent[i] = j]
        ELSE IF p.rank[i] = p.rank[j]
             THEN [found EXCEPT !.parent[i] = j, !.rank[j] = p.rank[j] + 1]
        ELSE [found EXCEPT !.parent[j] = i]

\* The smallest element of a non-empty set of indices.
MinOf(S) == CHOOSE m \in S : \A x \in S : m <= x

\* all_sets().nth(set_index).unwrap().nth(0).unwrap().0: all_sets walks the
\* elements in increasing order and yields a set the first time it meets one
\* of its members, each set starting at its root. NoIndex stands for the None
\* that nth returns when there are not that many sets.
NoIndex == -1
first_of_nth_set(p, set_index) ==
    LET met == {i \in DOMAIN p.parent : \A j \in 0..(i - 1) : ~same_set(p, i, j)}
        at  == {m \in met : Cardinality({x \in met : x < m}) = set_index}
    IN  IF at = {} THEN NoIndex ELSE Find(p, MinOf(at))

-----------------------------------------------------------------------------
(* The random source (R: Rng + Clone) and the two distributions drawn.     *)

RngStates == 0..(RngMod - 1)

\* One step of the generator.
RngNext(s) == (5 * s + 3) % RngMod

\* One sample: the value read and the state left behind.
Draw(s) == [val |-> s, rng |-> RngNext(s)]

\* gen_index(rng, ubound): a uniform index below ubound.
gen_index(val, ubound) == val % ubound

\* Mutant: the division by two is made before the product.
Rate_halves_first(k) == (k \div 2) * (k - 1)

\* current_partition_size * (current_partition_size - 1) / 2 in usize.
Rate(k) == (k * (k - 1)) \div 2

RECURSIVE RateProduct(_)
RateProduct(k) == IF k < 2 THEN 1 ELSE Rate(k) * RateProduct(k - 1)

\* Times are counted in units of 1 / TimeScale, which every rate divides.
TimeScale == RateProduct(MaxN)

\* Exp::new(rate).unwrap().sample(rng): a unit-rate variate times 1 / rate.
ExpSample(val, rate) == (1 + (val % TimeLevels)) * (TimeScale \div rate)

RECURSIVE Reservoir(_, _, _, _)
\* The tail of choose_multiple_fill: element i replaces slot j of the buffer
\* when the index drawn below i + 1 falls inside the buffer.
Reservoir(i, k, buf, r) ==
    IF i >= k THEN [buf |-> buf, rng |-> r]
    ELSE LET d == Draw(r)
             j == gen_index(d.val, i + 1)
         IN  Reservoir(i + 1, k, IF j < 2 THEN [buf EXCEPT ![j + 1] = i] ELSE buf, d.rng)

\* Mutant: the buffer keeps the first two elements and no reservoir runs.
choose_multiple_fill_first_two(k, r) ==
    IF k >= 2 THEN [buf |-> <<0, 1>>, rng |-> r]
    ELSE [buf |-> <<0, 0>>, rng |-> r]

\* (0..k).choose_multiple_fill(rng, &mut set_indexes) with set_indexes = [0; 2]:
\* the buffer takes the first two elements, then the reservoir runs.
choose_multiple_fill(k, r) ==
    IF k >= 2 THEN Reservoir(2, k, <<0, 1>>, r)
    ELSE [buf |-> <<0, 0>>, rng |-> r]

-----------------------------------------------------------------------------
(* Coalescent<R>: the process.                                             *)

\* Coalescent::new(group_size, rng).
new(group_size, r) == [state |-> Singletons(group_size), rng |-> r]

\* What a call gives back: kind is "Some" or "None" (the Option), or "Panic";
\* state and rng are the process after the call.
Outcome(kind, time, pair, p, r) ==
    [kind |-> kind, time |-> time, pair |-> pair, state |-> p, rng |-> r]

\* The branch of peek_next_step for a non-terminal state of
\* current_partition_size sets: the time step is drawn, then the two sets.
draw_step(p, r, current_partition_size) ==
    LET d           == Draw(r)
        time_step   == ExpSample(d.val, Rate(current_partition_size))
        chosen      == choose_multiple_fill(current_partition_size, d.rng)
        set_indexes == chosen.buf
        value_indexes ==
            <<first_of_nth_set(p, set_indexes[1]), first_of_nth_set(p, set_indexes[2])>>
    IN  Outcome("Some", time_step, value_indexes, p, chosen.rng)

\* Mutant: the terminal state consumes a draw before it answers None.
peek_next_step_draws_first(p, r) ==
    LET current_partition_size == amount_of_sets(p) IN
    IF current_partition_size = 1 THEN Outcome("None", 0, <<>>, p, Draw(r).rng)
    ELSE IF current_partition_size = 0 THEN Outcome("Panic", 0, <<>>, p, r)
    ELSE draw_step(p, r, current_partition_size)

\* Mutant: the peek already unites the two sets it chose.
peek_next_step_unites(p, r) ==
    LET current_partition_size == amount_of_sets(p) IN
    IF current_partition_size = 1 THEN Outcome("None", 0, <<>>, p, r)
    ELSE IF current_partition_size = 0 THEN Outcome("Panic", 0, <<>>, p, r)
    ELSE LET peeked == draw_step(p, r, current_partition_size)
         IN  [peeked EXCEPT !.state = union(p, peeked.pair[1], peeked.pair[2])]

\* Mutant: the process already counts two sets as terminal.
peek_next_step_stops_at_two(p, r) ==
    LET current_partition_size == amount_of_sets(p) IN
    IF current_partition_size = 1 \/ current_partition_size = 2
    THEN Outcome("None", 0, <<>>, p, r)
    ELSE IF current_partition_size = 0 THEN Outcome("Panic", 0, <<>>, p, r)
    ELSE draw_step(p, r, current_partition_size)

\* Coalescent::peek_next_step. With no set at all the branch of the
\* non-terminal state is taken: current_partition_size - 1 overflows, or the
\* rate 0 is refused by Exp::new, or nth(0) finds no set; every build panics.
peek_next_step(p, r) ==
    LET current_partition_size == amount_of_sets(p) IN
    IF current_partition_size = 1 THEN Outcome("None", 0, <<>>, p, r)
    ELSE IF current_partition_size = 0 THEN Outcome("Panic", 0, <<>>, p, r)
    ELSE draw_step(p, r, current_partition_size)

\* The match of next_step and of Iterator::next on the peeked step: the two
\* sets are united. The peeked step is bound once, as the match binds it.
apply_step(peeked) ==
    CHOOSE applied \in
        {IF step.kind = "Some"
         THEN [step EXCEPT !.state = union(step.state, step.pair[1], step.pair[2])]
         ELSE step : step \in {peeked}} : TRUE

\* The place of the set of element i in the enumeration of all_sets.
set_index_of(p, i) ==
    Cardinality({m \in DOMAIN p.parent :
                    /\ m < MinOf(SetOf(p, i))
                    /\ \A j \in 0..(m - 1) : ~same_set(p, m, j)})

\* Mutant: the step unites the right sets and returns set_indexes, the places
\* of the two sets, instead of value_indexes.
next_step_returns_set_indexes(p, r) ==
    LET out == apply_step(peek_next_step(p, r)) IN
    IF out.kind = "Some"
    THEN [out EXCEPT !.pair = <<set_index_of(p, out.pair[1]), set_index_of(p, out.pair[2])>>]
    ELSE out

\* Coalescent::next_step.
next_step(p, r) == apply_step(peek_next_step(p, r))

\* Iterator::next for Coalescent: the item is (time_step, self.state.clone()).
next(p, r) == apply_step(peek_next_step(p, r))

\* A panicking peek leaves the source where the build at hand left it: before
\* the exponential draw, or after it.
AfterPanic(r) == {r, Draw(r).rng}

RECURSIVE path_loop(_, _, _)
\* The loop of sample_path over coalescent_process.next().
path_loop(p, r, realizations) ==
    LET step == next(p, r) IN
    IF step.kind = "Some"
    THEN path_loop(step.state, step.rng, Append(realizations, <<step.time, step.state>>))
    ELSE [kind |-> IF step.kind = "None" THEN "Path" ELSE "Panic",
          path |-> realizations, rng |-> step.rng]

\* Mutant: the run continues from the partition the process is in.
sample_path_from_current(self_state, external) ==
    path_loop(self_state, external, <<<<0, self_state>>>>)

\* Coalescent::sample_path(&self, rng): a new process of self.state().len()
\* elements runs on a clone of the caller's source.
sample_path(self_state, external) ==
    LET initial_group_size == len(self_state)
        coalescent_process == new(initial_group_size, external)
    IN  path_loop(coalescent_process.state, coalescent_process.rng,
                  <<<<0, coalescent_process.state>>>>)

\* Mutant: the cache starts filled, with a graph that has no node.
Genealogy_with_graph(path, steps, time_steps) ==
    [path |-> path, steps |-> steps, time_steps |-> time_steps,
     graph |-> <<[nodes |-> <<>>, edges |-> <<>>]>>]

\* Genealogy::new: the cached graph starts absent (an Option is a sequence of
\* length 0 or 1).
Genealogy(path, steps, time_steps) ==
    [path |-> path, steps |-> steps, time_steps |-> time_steps, graph |-> <<>>]

RECURSIVE genealogy_loop(_, _, _, _, _, _)
\* The loop of sample_genealogy over coalescent_process.next_step(); replay is
\* the local partition the recorded steps are applied to.
genealogy_loop(p, r, replay, path, steps, time_steps) ==
    LET step == next_step(p, r) IN
    IF step.kind = "Some"
    THEN LET united == union(replay, step.pair[1], step.pair[2])
         IN  genealogy_loop(step.state, step.rng, united, Append(path, united),
                            Append(steps, step.pair), Append(time_steps, step.time))
    ELSE [kind |-> IF step.kind = "None" THEN "Genealogy" ELSE "Panic",
          genealogy |-> Genealogy(path, steps, time_steps), rng |-> step.rng]

\* Mutant: the initial state is not pushed to the path.
sample_genealogy_without_initial(self_state, external) ==
    LET group_size         == len(self_state)
        coalescent_process == new(group_size, external)
        replay             == Singletons(group_size)
    IN  IF group_size = 0
        THEN [kind |-> "Panic", genealogy |-> Genealogy(<<>>, <<>>, <<>>), rng |-> external]
        ELSE genealogy_loop(coalescent_process.state, coalescent_process.rng, replay,
                            <<>>, <<>>, <<>>)

\* Mutant: the recorded path starts from a clone of the current state of the
\* process instead of group_size singletons.
sample_genealogy_from_current(self_state, external) ==
    LET group_size         == len(self_state)
        coalescent_process == new(group_size, external)
        replay             == self_state
    IN  IF group_size = 0
        THEN [kind |-> "Panic", genealogy |-> Genealogy(<<>>, <<>>, <<>>), rng |-> external]
        ELSE genealogy_loop(coalescent_process.state, coalescent_process.rng, replay,
                            <<replay>>, <<>>, <<>>)

\* Mutant: the run continues from a clone of the current state of the process
\* ("from the current state") instead of a new process of group_size singletons.
sample_genealogy_from_clone(self_state, external) ==
    LET group_size == len(self_state)
        replay     == Singletons(group_size)
    IN  IF group_size = 0
        THEN [kind |-> "Panic", genealogy |-> Genealogy(<<>>, <<>>, <<>>), rng |-> external]
        ELSE genealogy_loop(self_state, external, replay, <<replay>>, <<>>, <<>>)

\* Coalescent::sample_genealogy(&self, rng). Vec::with_capacity(group_size - 1)
\* panics for group_size 0 (the subtraction overflows, or the capacity does).
sample_genealogy(self_state, external) ==
    LET group_size         == len(self_state)
        coalescent_process == new(group_size, external)
        replay             == Singletons(group_size)
    IN  IF group_size = 0
        THEN [kind |-> "Panic", genealogy |-> Genealogy(<<>>, <<>>, <<>>), rng |-> external]
        ELSE genealogy_loop(coalescent_process.state, coalescent_process.rng, replay,
                            <<replay>>, <<>>, <<>>)

-----------------------------------------------------------------------------
(* Genealogy: the derived quantities.                                      *)

RECURSIVE SumSeq(_)
SumSeq(s) == IF s = <<>> THEN 0 ELSE Head(s) + SumSeq(Tail(s))

\* Mutant: the first waiting time is not counted.
depth_without_first(g) == SumSeq(SubSeq(g.time_steps, 2, Len(g.time_steps)))

\* Genealogy::depth.
depth(g) == SumSeq(g.time_steps)

\* Mutant: a waiting time is weighted by the sets left after its event.
length_after_event(g) ==
    LET group_size == len(g.path[1])
    IN  SumSeq([i \in 1..Len(g.time_steps) |-> (group_size - i) * g.time_steps[i]])

\* Genealogy::length: (group_size - i) * time_step over the enumerated times.
length(g) ==
    LET group_size == len(g.path[1])
    IN  SumSeq([i \in 1..Len(g.time_steps) |-> (group_size - (i - 1)) * g.time_steps[i]])

\* for state in &self.path: the states passed before the two values share a set.
RECURSIVE count_loop(_, _, _, _, _)
count_loop(path, i, index_1, index_2, counter) ==
    IF i > Len(path) THEN counter
    ELSE IF same_set(path[i], index_1, index_2) THEN counter
    ELSE count_loop(path, i + 1, index_1, index_2, counter + 1)

\* Mutant: the walk stops where index_2 is the root of index_1's set.
RECURSIVE count_loop_to_root(_, _, _, _, _)
count_loop_to_root(path, i, index_1, index_2, counter) ==
    IF i > Len(path) THEN counter
    ELSE IF Find(path[i], index_1) = index_2 THEN counter
    ELSE count_loop_to_root(path, i + 1, index_1, index_2, counter + 1)

\* time_steps.iter().take(counter).
take(s, counter) == SubSeq(s, 1, IF counter < Len(s) THEN counter ELSE Len(s))

\* Mutant: the walk over the path starts after the initial state.
divergence_skips_initial(g, index_1, index_2) ==
    LET counter == count_loop(g.path, 2, index_1, index_2, 0)
    IN  2 * SumSeq(take(g.time_steps, counter))

\* Mutant: divergence tells the sets apart by the root of index_1 only.
divergence_to_root(g, index_1, index_2) ==
    LET counter == count_loop_to_root(g.path, 1, index_1, index_2, 0)
    IN  2 * SumSeq(take(g.time_steps, counter))

\* Genealogy::divergence.
divergence(g, index_1, index_2) ==
    LET counter == count_loop(g.path, 1, index_1, index_2, 0)
    IN  2 * SumSeq(take(g.time_steps, counter))

\* The sweep of Genealogy::mean_pairwise_divergence: cummulative_divergence
\* after the iterations from `iteration` on.
RECURSIVE sweep(_, _, _, _)
sweep(g, iteration, cummulative_time, cummulative_divergence) ==
    IF iteration >= Len(g.steps) THEN cummulative_divergence
    ELSE LET value_indexes == g.steps[iteration + 1]
             p == g.path[iteration + 1]
             time == cummulative_time + g.time_steps[iteration + 1]
             set_size_1 == len_of_set(p, value_indexes[1])
             set_size_2 == len_of_set(p, value_indexes[2])
             number_of_pairs == set_size_1 * set_size_2
         IN  sweep(g, iteration + 1, time,
                   cummulative_divergence + (2 * time) * number_of_pairs)

\* An f64 quotient num / den, kept as the two terms: 0 / 0 is NaN.
Quotient(num, den) == [num |-> num, den |-> den]

\* Mutant: the sum over the pairs is divided by the number of ordered pairs.
mean_pairwise_divergence_ordered(g) ==
    LET group_size == Len(g.steps) + 1
    IN  Quotient(sweep(g, 0, 0, 0), group_size * (group_size - 1))

\* Mutant: a Genealogy of one element is answered with 0.
mean_pairwise_divergence_zero_for_single(g) ==
    LET group_size == Len(g.steps) + 1
    IN  IF group_size = 1 THEN Quotient(0, 1)
        ELSE Quotient(sweep(g, 0, 0, 0) * 2, group_size * (group_size - 1))

\* Genealogy::mean_pairwise_divergence.
mean_pairwise_divergence(g) ==
    LET group_size == Len(g.steps) + 1
    IN  Quotient(sweep(g, 0, 0, 0) * 2, group_size * (group_size - 1))

\* Mutant: a set is represented by the value index of the step.
representative_is_index(p, i) == i

\* (0..group_size).find(|&j| state.same_set(i, j)): the smallest member.
representative(p, i) == MinOf(SetOf(p, i))

\* Mutant: an entry that is already there keeps its value.
Insert_keeps_entry(map, key, value) ==
    [x \in (DOMAIN map) \cup {key} |-> IF x \in DOMAIN map THEN map[x] ELSE value]

\* A HashMap with one more entry.
Insert(map, key, value) ==
    [x \in (DOMAIN map) \cup {key} |-> IF x = key THEN value ELSE map[x]]

RECURSIVE graph_loop(_, _, _, _, _, _)
\* The loop of compute_graph over the generations: one parent node, two edges
\* to the latest nodes of the two representatives. A node is its label; an
\* edge is <<node index, node index, weight>>, node indices counting from 0.
graph_loop(g, generation, p, graph, node_indexes, representatives_generation) ==
    IF generation >= Len(g.steps) THEN graph
    ELSE
    LET time_step     == g.time_steps[generation + 1]
        value_indexes == g.steps[generation + 1]
        representatives ==
            <<representative(p, value_indexes[1]), representative(p, value_indexes[2])>>
        new_representative ==
            IF representatives[1] <= representatives[2]
            THEN representatives[1] ELSE representatives[2]
        node_index    == Len(graph.nodes)
        label         == <<generation + 1, new_representative>>
        added         == Insert(node_indexes, label, node_index)
        edge(rep)     == <<added[label], added[<<representatives_generation[rep], rep>>], time_step>>
    IN  graph_loop(g, generation + 1, union(p, value_indexes[1], value_indexes[2]),
                   [nodes |-> Append(graph.nodes, label),
                    edges |-> graph.edges \o <<edge(representatives[1]), edge(representatives[2])>>],
                   added,
                   Insert(representatives_generation, new_representative, generation + 1))

\* Mutant: no node is added when there are no steps.
compute_graph_empty_for_single(g) ==
    LET group_size == Len(g.steps) + 1 IN
    IF g.steps = <<>>
    THEN [nodes |-> <<>>, edges |-> <<>>]
    ELSE graph_loop(g, 0, Singletons(group_size),
                    [nodes |-> [i \in 1..group_size |-> <<0, i - 1>>], edges |-> <<>>],
                    [x \in {<<0, i>> : i \in 0..(group_size - 1)} |-> x[2]],
                    [i \in 0..(group_size - 1) |-> 0])

\* Mutant: the loop over the generations starts at the second event.
compute_graph_skips_first(g) ==
    LET group_size == Len(g.steps) + 1 IN
    IF g.steps = <<>>
    THEN [nodes |-> <<<<0, 0>>>>, edges |-> <<>>]
    ELSE graph_loop(g, 1, Singletons(group_size),
                    [nodes |-> [i \in 1..group_size |-> <<0, i - 1>>], edges |-> <<>>],
                    [x \in {<<0, i>> : i \in 0..(group_size - 1)} |-> x[2]],
                    [i \in 0..(group_size - 1) |-> 0])

\* Genealogy::compute_graph: the graph that is stored in self.graph.
compute_graph(g) ==
    LET group_size == Len(g.steps) + 1 IN
    IF g.steps = <<>>
    THEN [nodes |-> <<<<0, 0>>>>, edges |-> <<>>]
    ELSE graph_loop(g, 0, Singletons(group_size),
                    [nodes |-> [i \in 1..group_size |-> <<0, i - 1>>], edges |-> <<>>],
                    [x \in {<<0, i>> : i \in 0..(group_size - 1)} |-> x[2]],
                    [i \in 0..(group_size - 1) |-> 0])

\* Into<Graph> for Genealogy: the cached graph, or the computed one.
into(g) == IF g.graph # <<>> THEN g.graph[1] ELSE compute_graph(g)

-----------------------------------------------------------------------------
(* The state machine: one process, its caller's random source, and the     *)
(* Genealogy the caller holds.                                             *)

\* The record of a call on the process: what it read and what it returned.
\* item is the partition Iterator::next returns or the Vec sample_path returns.
Call(op, kind, time, pair, item) ==
    [op |-> op, preState |-> state, preRng |-> rng, preExt |-> ext,
     kind |-> kind, time |-> time, pair |-> pair, item |-> item]

\* The record of set_rng and set_state: they overwrite a field and read
\* nothing of the process, so the record holds no partition and no source.
Written(op) ==
    [op |-> op, preState |-> Singletons(0), preRng |-> 0, preExt |-> 0,
     kind |-> "Self", time |-> 0, pair |-> <<>>, item |-> <<>>]

NoAnswer == [op |-> "none", of |-> <<>>, args |-> <<>>, value |-> 0]

\* No second process.
NoTwin == <<>>

\* The sources of the processes (type R) and of their callers (type S).
ProcessSources == {"rng", "twin.rng"}
CallerSources == {"ext", "twin.ext"}

\* The kinds of R and S: each is a value or a handle, and handles of the two
\* types name two generators or one (rand::thread_rng() for both).
SourceKinds ==
    {{}, {ProcessSources}, {CallerSources}, {ProcessSources, CallerSources},
     {ProcessSources \cup CallerSources}}

\* The source is a handle: its clones draw from its generator.
Handle(source) == \E group \in shared : source \in group

\* Two sources draw from one generator.
Together(source, other) ==
    source = other \/ \E group \in shared : {source, other} \subseteq group

\* The source named source, which was at current, after the source named
\* moved has gone to r: handles to one generator move together, a value
\* stays where it is.
Aliased(source, current, moved, r) == IF Together(source, moved) THEN r ELSE current

\* The sources of the second process after the source named moved has gone
\* to r.
TwinAliased(moved, r) ==
    IF twin = NoTwin THEN twin
    ELSE [twin EXCEPT !.rng = Aliased("twin.rng", twin.rng, moved, r),
                      !.ext = Aliased("twin.ext", twin.ext, moved, r)]

RECURSIVE Unions(_)
\* The partitions that sequences of union calls make of those in ps.
Unions(ps) ==
    LET more == ps \cup UNION {{union(p, i, j) : i, j \in DOMAIN p.parent} : p \in ps}
    IN  IF more = ps THEN ps ELSE Unions(more)

\* The partitions a caller hands to set_state: any PartitionVec<()> of 0..MaxN
\* elements, built from singletons by unions. It may have another number of
\* elements than the current one, and it may split the sets the steps have
\* made.
StateInputs == UNION {Unions({Singletons(m)}) : m \in 0..MaxN}

\* let mut coalescent = Coalescent::new(group_size, rng), and the caller's own
\* source.
Init ==
    \E group_size \in 0..MaxN, r \in RngStates, e \in RngStates, kinds \in SourceKinds :
        /\ (ProcessSources \cup CallerSources) \in kinds => e = r
        /\ shared = kinds
        /\ state = new(group_size, r).state
        /\ rng = new(group_size, r).rng
        /\ ext = e
        /\ last = [op |-> "new", preState |-> Singletons(group_size), preRng |-> r,
                   preExt |-> e, kind |-> "Self", time |-> 0, pair |-> <<>>, item |-> <<>>]
        /\ genealogy = <<>>
        /\ answer = NoAnswer
        /\ panicked = FALSE
        /\ twin = NoTwin

\* coalescent.set_rng(other_rng).
SetRng ==
    /\ ~panicked
    /\ \E other_rng \in (IF Handle("rng") THEN {rng} ELSE RngStates) : rng' = other_rng
    /\ last' = Written("set_rng")
    /\ UNCHANGED <<state, ext, genealogy, answer, panicked, twin, shared>>

\* coalescent.set_state(state) of CMarkovChainTrait: the partition is replaced.
SetState ==
    /\ ~panicked
    /\ \E p \in StateInputs : state' = p
    /\ last' = Written("set_state")
    /\ UNCHANGED <<rng, ext, genealogy, answer, panicked, twin, shared>>

\* coalescent.peek_next_step().
PeekNextStep ==
    /\ ~panicked
    /\ \E out \in {peek_next_step(state, rng)} :
        /\ state' = out.state
        /\ rng' \in (IF out.kind = "Panic" THEN AfterPanic(rng) ELSE {out.rng})
        /\ panicked' = (out.kind = "Panic")
        /\ last' = Call("peek_next_step", out.kind, out.time, out.pair, <<>>)
    /\ ext' = Aliased("ext", ext, "rng", rng')
    /\ twin' = TwinAliased("rng", rng')
    /\ UNCHANGED <<genealogy, answer, shared>>

\* coalescent.next_step().
NextStep ==
    /\ ~panicked
    /\ \E out \in {next_step(state, rng)} :
        /\ state' = out.state
        /\ rng' \in (IF out.kind = "Panic" THEN AfterPanic(rng) ELSE {out.rng})
        /\ panicked' = (out.kind = "Panic")
        /\ last' = Call("next_step", out.kind, out.time, out.pair, <<>>)
    /\ ext' = Aliased("ext", ext, "rng", rng')
    /\ twin' = TwinAliased("rng", rng')
    /\ UNCHANGED <<genealogy, answer, shared>>

\* coalescent.next().
IterNext ==
    /\ ~panicked
    /\ \E out \in {next(state, rng)} :
        /\ state' = out.state
        /\ rng' \in (IF out.kind = "Panic" THEN AfterPanic(rng) ELSE {out.rng})
        /\ panicked' = (out.kind = "Panic")
        /\ last' = Call("next", out.kind, out.time, out.pair,
                        IF out.kind = "Some" THEN out.state ELSE <<>>)
    /\ ext' = Aliased("ext", ext, "rng", rng')
    /\ twin' = TwinAliased("rng", rng')
    /\ UNCHANGED <<genealogy, answer, shared>>

\* Mutant: the final state of the clone is not written back to the caller.
SamplePathKeepsSource ==
    /\ ~panicked
    /\ \E out \in {sample_path(state, ext)} :
        /\ ext' \in (IF out.kind = "Panic" /\ Handle("ext") THEN AfterPanic(out.rng)
                      ELSE IF Handle("ext") THEN {out.rng} ELSE {ext})
        /\ panicked' = (out.kind = "Panic")
        /\ last' = Call("sample_path", out.kind, 0, <<>>,
                        IF out.kind = "Panic" THEN <<>> ELSE out.path)
    /\ rng' = Aliased("rng", rng, "ext", ext')
    /\ twin' = TwinAliased("ext", ext')
    /\ UNCHANGED <<state, genealogy, answer, shared>>

\* coalescent.sample_path(&mut rng): *rng = coalescent_process.rng().clone()
\* is reached only when the loop ends without a panic.
SamplePath ==
    /\ ~panicked
    /\ \E out \in {sample_path(state, ext)} :
        /\ ext' \in (IF out.kind # "Panic" THEN {out.rng}
                      ELSE IF Handle("ext") THEN AfterPanic(out.rng) ELSE {ext})
        /\ panicked' = (out.kind = "Panic")
        /\ last' = Call("sample_path", out.kind, 0, <<>>,
                        IF out.kind = "Panic" THEN <<>> ELSE out.path)
    /\ rng' = Aliased("rng", rng, "ext", ext')
    /\ twin' = TwinAliased("ext", ext')
    /\ UNCHANGED <<state, genealogy, answer, shared>>

\* Mutant: the run is driven on the source of the process itself, which is
\* left where the run ended.
SampleGenealogyOnSelf ==
    /\ ~panicked
    /\ \E out \in {sample_genealogy(state, rng)} :
        /\ rng' = out.rng
        /\ panicked' = (out.kind = "Panic")
        /\ last' = Call("sample_genealogy", out.kind, 0, <<>>, <<>>)
        /\ genealogy' = (IF out.kind = "Panic" THEN genealogy ELSE <<out.genealogy>>)
        /\ answer' = (IF out.kind = "Panic" THEN answer ELSE NoAnswer)
    /\ ext' = Aliased("ext", ext, "rng", rng')
    /\ twin' = TwinAliased("rng", rng')
    /\ UNCHANGED <<state, shared>>

\* let genealogy = coalescent.sample_genealogy(&mut rng).
SampleGenealogy ==
    /\ ~panicked
    /\ \E out \in {sample_genealogy(state, ext)} :
        /\ ext' = (IF out.kind = "Panic" THEN ext ELSE out.rng)
        /\ panicked' = (out.kind = "Panic")
        /\ last' = Call("sample_genealogy", out.kind, 0, <<>>, <<>>)
        /\ genealogy' = (IF out.kind = "Panic" THEN genealogy ELSE <<out.genealogy>>)
        /\ answer' = (IF out.kind = "Panic" THEN answer ELSE NoAnswer)
    /\ rng' = Aliased("rng", rng, "ext", ext')
    /\ twin' = TwinAliased("ext", ext')
    /\ UNCHANGED <<state, shared>>

\* genealogy.depth().
Depth ==
    /\ ~panicked
    /\ genealogy # <<>>
    /\ answer' = [op |-> "depth", of |-> genealogy, args |-> <<>>,
                  value |-> depth(genealogy[1])]
    /\ UNCHANGED <<state, rng, ext, last, genealogy, panicked, twin, shared>>

\* genealogy.length().
Length ==
    /\ ~panicked
    /\ genealogy # <<>>
    /\ answer' = [op |-> "length", of |-> genealogy, args |-> <<>>,
                  value |-> length(genealogy[1])]
    /\ UNCHANGED <<state, rng, ext, last, genealogy, panicked, twin, shared>>

\* genealogy.divergence(index_1, index_2) on two values of the group.
Divergence ==
    /\ ~panicked
    /\ genealogy # <<>>
    /\ \E index_1, index_2 \in 0..(len(genealogy[1].path[1]) - 1) :
        answer' = [op |-> "divergence", of |-> genealogy,
                   args |-> <<index_1, index_2>>,
                   value |-> divergence(genealogy[1], index_1, index_2)]
    /\ UNCHANGED <<state, rng, ext, last, genealogy, panicked, twin, shared>>

\* genealogy.mean_pairwise_divergence().
MeanPairwiseDivergence ==
    /\ ~panicked
    /\ genealogy # <<>>
    /\ answer' = [op |-> "mean_pairwise_divergence", of |-> genealogy, args |-> <<>>,
                  value |-> mean_pairwise_divergence(genealogy[1])]
    /\ UNCHANGED <<state, rng, ext, last, genealogy, panicked, twin, shared>>

\* let graph: Graph<_, _, _, _> = genealogy.into(): the Genealogy is moved.
Into ==
    /\ ~panicked
    /\ genealogy # <<>>
    /\ answer' = [op |-> "into", of |-> genealogy, args |-> <<>>,
                  value |-> into(genealogy[1])]
    /\ genealogy' = <<>>
    /\ UNCHANGED <<state, rng, ext, last, panicked, twin, shared>>

\* The process and the two samplers.
Next ==
    \/ SetRng
    \/ SetState
    \/ PeekNextStep
    \/ NextStep
    \/ IterNext
    \/ SamplePath
    \/ SampleGenealogy

Spec == Init /\ [][Next]_vars

\* The process is stepped to its end, and whole runs are sampled.
NextRun ==
    \/ NextStep
    \/ IterNext
    \/ SamplePath
    \/ SampleGenealogy

\* The caller keeps calling next_step: a step that is possible is made.
SpecRun == Init /\ [][NextRun]_vars /\ WF_vars(NextStep)

\* The process alone: it is given sources and partitions, peeked and stepped.
NextSteps ==
    \/ SetRng
    \/ SetState
    \/ PeekNextStep
    \/ NextStep
    \/ IterNext

SpecSteps == Init /\ [][NextSteps]_vars

\* Runs are sampled on a process that is stepped and given partitions.
NextSample ==
    \/ SetState
    \/ NextStep
    \/ SamplePath
    \/ SampleGenealogy

SpecSample == Init /\ [][NextSample]_vars

\* A Genealogy is sampled and queried.
NextGenealogy ==
    \/ SampleGenealogy
    \/ Depth
    \/ Length
    \/ Divergence
    \/ MeanPairwiseDivergence
    \/ Into

SpecGenealogy == Init /\ [][NextGenealogy]_vars

-----------------------------------------------------------------------------
(* Two processes constructed alike: the same group_size, and sources cloned *)
(* from the same source (rng.clone() in the doc test of set_rng).           *)

\* The record of a call on the second process.
TwinCall(op, kind, time, pair, item) ==
    [op |-> op, preState |-> twin.state, preRng |-> twin.rng, preExt |-> twin.ext,
     kind |-> kind, time |-> time, pair |-> pair, item |-> item]

\* Coalescent::new(group_size, rng.clone()), twice, and two clones of the
\* callers' source.
InitPair ==
    \E group_size \in 1..MaxN, r \in RngStates, e \in RngStates, kinds \in SourceKinds :
        LET constructed ==
                [op |-> "new", preState |-> Singletons(group_size), preRng |-> r,
                 preExt |-> e, kind |-> "Self", time |-> 0, pair |-> <<>>, item |-> <<>>]
        IN  /\ (ProcessSources \cup CallerSources) \in kinds => e = r
            /\ shared = kinds
            /\ state = new(group_size, r).state
            /\ rng = new(group_size, r).rng
            /\ ext = e
            /\ last = constructed
            /\ genealogy = <<>>
            /\ answer = NoAnswer
            /\ panicked = FALSE
            /\ twin = [state |-> new(group_size, r).state, rng |-> new(group_size, r).rng,
                       ext |-> e, last |-> constructed, genealogy |-> <<>>]

\* next_step() on the second process.
TwinNextStep ==
    /\ ~panicked
    /\ \E out \in {next_step(twin.state, twin.rng)} :
        /\ twin' = [twin EXCEPT !.state = out.state, !.rng = out.rng,
                        !.ext = Aliased("twin.ext", twin.ext, "twin.rng", out.rng),
                        !.last = TwinCall("next_step", out.kind, out.time, out.pair, <<>>)]
        /\ panicked' = (out.kind = "Panic")
    /\ rng' = Aliased("rng", rng, "twin.rng", twin'.rng)
    /\ ext' = Aliased("ext", ext, "twin.rng", twin'.rng)
    /\ UNCHANGED <<state, last, genealogy, answer, shared>>

\* next() on the second process.
TwinIterNext ==
    /\ ~panicked
    /\ \E out \in {next(twin.state, twin.rng)} :
        /\ twin' = [twin EXCEPT !.state = out.state, !.rng = out.rng,
                        !.ext = Aliased("twin.ext", twin.ext, "twin.rng", out.rng),
                        !.last = TwinCall("next", out.kind, out.time, out.pair,
                                          IF out.kind = "Some" THEN out.state ELSE <<>>)]
        /\ panicked' = (out.kind = "Panic")
    /\ rng' = Aliased("rng", rng, "twin.rng", twin'.rng)
    /\ ext' = Aliased("ext", ext, "twin.rng", twin'.rng)
    /\ UNCHANGED <<state, last, genealogy, answer, shared>>

\* sample_genealogy(&mut rng) on the second process, with its caller's source.
TwinSampleGenealogy ==
    /\ ~panicked
    /\ \E out \in {sample_genealogy(twin.state, twin.ext)} :
        /\ twin' = [twin EXCEPT
                        !.ext = IF out.kind = "Panic" THEN twin.ext ELSE out.rng,
                        !.rng = Aliased("twin.rng", twin.rng, "twin.ext",
                                        IF out.kind = "Panic" THEN twin.ext ELSE out.rng),
                        !.genealogy = IF out.kind = "Panic" THEN twin.genealogy
                                      ELSE <<out.genealogy>>,
                        !.last = TwinCall("sample_genealogy", out.kind, 0, <<>>, <<>>)]
        /\ panicked' = (out.kind = "Panic")
    /\ rng' = Aliased("rng", rng, "twin.ext", twin'.ext)
    /\ ext' = Aliased("ext", ext, "twin.ext", twin'.ext)
    /\ UNCHANGED <<state, last, genealogy, answer, shared>>

NextPair ==
    \/ NextStep
    \/ IterNext
    \/ SampleGenealogy
    \/ TwinNextStep
    \/ TwinIterNext
    \/ TwinSampleGenealogy

SpecPair == InitPair /\ [][NextPair]_vars

\* The processes and their callers use sources of one type, R = S, as the
\* examples of the documentation do: values (Pcg32), or handles to one
\* generator (thread_rng).
InitPairOfOneType ==
    /\ InitPair
    /\ shared \in {{}, {ProcessSources \cup CallerSources}}

SpecPairOfOneType == InitPairOfOneType /\ [][NextPair]_vars

-----------------------------------------------------------------------------
(* Properties.                                                             *)

Samplers == {"sample_path", "sample_genealogy"}
Steppers == {"next_step", "next"}

\* The Genealogy the last query was made on, or the one still held.
Held == IF genealogy # <<>> THEN genealogy[1] ELSE answer.of[1]

RECURSIVE RngAdvance(_, _)
\* The source s after count samples.
RngAdvance(s, count) == IF count = 0 THEN s ELSE RngAdvance(RngNext(s), count - 1)

RECURSIVE NumDraws(_)
\* The samples a run from group_size singletons takes: with k sets, one
\* waiting time and k - 2 reservoir indices.
NumDraws(group_size) ==
    IF group_size < 2 THEN 0 ELSE (group_size - 1) + NumDraws(group_size - 1)

\* C1: for every group_size n >= 1 the sampled Genealogy has n snapshots in
\* path and n - 1 entries in steps and in time_steps, and entry i of steps and
\* of time_steps belong to the same merge event: steps[i] joins two sets of
\* path[i] into path[i + 1] and time_steps[i] is a positive time drawn at the
\* rate of the n - i sets of path[i].
C1_GenealogyLengths ==
    (last.op = "sample_genealogy" /\ last.kind = "Genealogy" /\ len(state) >= 1) =>
        LET g == genealogy[1]
            n == len(state)
        IN  /\ Len(g.path) = n
            /\ Len(g.steps) = n - 1
            /\ Len(g.time_steps) = n - 1
            /\ \A i \in 1..(n - 1) :
                /\ ~same_set(g.path[i], g.steps[i][1], g.steps[i][2])
                /\ g.path[i + 1] = union(g.path[i], g.steps[i][1], g.steps[i][2])
                /\ g.time_steps[i] > 0
                /\ g.time_steps[i] % (TimeScale \div Rate(n - i + 1)) = 0

C1_Witness ==
    /\ last.op = "sample_genealogy"
    /\ last.kind = "Genealogy"
    /\ len(state) = 3
    /\ Len(genealogy[1].steps) = 2

\* C2: for n >= 2, snapshot i of the path (counted from 0) has n - i sets;
\* the first is n singletons and the last one set of all n indices.
C2_PathSetCounts ==
    (last.op = "sample_genealogy" /\ last.kind = "Genealogy" /\ len(state) >= 2) =>
        LET g == genealogy[1]
            n == len(state)
        IN  /\ Len(g.path) = n
            /\ \A i \in 0..(n - 1) : amount_of_sets(g.path[i + 1]) = n - i
            /\ \A j \in 0..(n - 1) : SetOf(g.path[1], j) = {j}
            /\ SetOf(g.path[n], 0) = 0..(n - 1)

C2_Witness ==
    /\ last.op = "sample_genealogy"
    /\ last.kind = "Genealogy"
    /\ len(state) = 3
    /\ amount_of_sets(state) = 2
    /\ amount_of_sets(genealogy[1].path[2]) = 2

\* C3: a next_step or next from k >= 2 sets succeeds and unites exactly the
\* two sets of the pair it chose: the two are one set afterwards, there are
\* k - 1 sets, every other set is as it was, the sets still partition the
\* indices, and Iterator::next returns the new partition; no step, peek or
\* sampler ever splits a set (set_state replaces the partition by the
\* caller's).
C3_StepMergesExactlyTwoSets ==
    /\ last.op \in (Steppers \cup Samplers \cup {"peek_next_step"}) =>
        \A b \in Blocks(last.preState) : \E c \in Blocks(state) : b \subseteq c
    /\ (last.op \in Steppers /\ amount_of_sets(last.preState) >= 2) =>
        /\ last.kind = "Some"
        /\ LET pre == last.preState
               a   == last.pair[1]
               b   == last.pair[2]
           IN  /\ a \in DOMAIN pre.parent /\ b \in DOMAIN pre.parent
               /\ SetOf(pre, a) # SetOf(pre, b)
               /\ same_set(state, a, b)
               /\ amount_of_sets(state) = amount_of_sets(pre) - 1
               /\ Blocks(state) = (Blocks(pre) \ {SetOf(pre, a), SetOf(pre, b)})
                                      \cup {SetOf(pre, a) \cup SetOf(pre, b)}
               /\ UNION Blocks(state) = DOMAIN state.parent
               /\ \A x, y \in Blocks(state) : x = y \/ x \cap y = {}
               /\ last.op = "next" => last.item = state

C3_Witness ==
    /\ last.op = "next_step"
    /\ last.kind = "Some"
    /\ amount_of_sets(last.preState) = 2
    /\ len(state) = 3

\* C4: sample_path and sample_genealogy leave the partition and the random
\* source of the process they are called on as they were, whatever the group
\* size and the steps made before. The source is the one the process owns: a
\* generator that the caller's source is a handle to as well is the caller's
\* source, which the call advances (C5).
C4_SamplersKeepProcess ==
    last.op \in Samplers =>
        /\ state = last.preState
        /\ ~Together("rng", "ext") => rng = last.preRng

C4_Witness ==
    /\ last.op = "sample_genealogy"
    /\ last.kind = "Genealogy"
    /\ ~Together("rng", "ext")
    /\ len(state) = 3
    /\ amount_of_sets(state) = 2
    /\ ext # last.preExt

\* C5: on return from sample_path or sample_genealogy the caller's source is
\* the source after the last sample of the run: NumDraws(group_size) samples
\* past where it was, none for group_size 1.
C5_SourceWrittenBack ==
    (last.op \in Samplers /\ last.kind # "Panic") =>
        ext = RngAdvance(last.preExt, NumDraws(len(state)))

C5_Witness ==
    /\ last.op = "sample_path"
    /\ last.kind = "Path"
    /\ len(state) = 3
    /\ ext # last.preExt

\* C6: two processes of the same group_size give the same answer to the same
\* call whenever what the call reads is the same: a next_step or next on equal
\* partitions with sources in the same state returns the same step and leaves
\* the same partition and source, whatever the callers' sources are; a
\* sample_genealogy with the caller's source in the same state returns the
\* same path, steps and time_steps and leaves the same caller's source,
\* whatever the partition and the own source of each process are.
C6_Determinism ==
    /\ ( /\ last.op \in Steppers
         /\ twin.last.op = last.op
         /\ twin.last.preState = last.preState
         /\ twin.last.preRng = last.preRng )
       => /\ twin.last.kind = last.kind
          /\ twin.last.time = last.time
          /\ twin.last.pair = last.pair
          /\ twin.last.item = last.item
          /\ twin.state = state
          /\ twin.rng = rng
    /\ ( /\ last.op = "sample_genealogy"
         /\ twin.last.op = "sample_genealogy"
         /\ len(twin.last.preState) = len(last.preState)
         /\ twin.last.preExt = last.preExt )
       => /\ twin.last.kind = last.kind
          /\ twin.genealogy = genealogy
          /\ twin.ext = ext

C6_Witness ==
    /\ last.op = "sample_genealogy"
    /\ twin.last.op = "sample_genealogy"
    /\ twin.last.preExt = last.preExt
    /\ len(state) = 3
    /\ amount_of_sets(state) = 2
    /\ amount_of_sets(twin.state) = 3
    /\ rng # twin.rng

\* C7: from a partition of one set, peek_next_step, next_step and next return
\* None without a panic and leave the partition and the source of the process
\* as they were; no step, peek or sampler leaves the single-set partition
\* (set_state replaces the partition by the caller's).
C7_TerminalIsAbsorbing ==
    (last.op \in (Steppers \cup Samplers \cup {"peek_next_step"})
        /\ amount_of_sets(last.preState) = 1) =>
        /\ amount_of_sets(state) = 1
        /\ last.op \in (Steppers \cup {"peek_next_step"}) =>
            /\ last.kind = "None"
            /\ ~panicked
            /\ state = last.preState
            /\ rng = last.preRng

C7_Witness ==
    /\ last.op = "next_step"
    /\ last.kind = "None"
    /\ len(state) = 3

\* C8: a process of group_size 0 is terminal: the steppers return None and
\* the samplers complete, without a failure.
C8_ZeroGroupIsTerminal ==
    (len(state) = 0 /\ last.op \in (Steppers \cup Samplers \cup {"peek_next_step"})) =>
        /\ ~panicked
        /\ last.kind \in {"None", "Path", "Genealogy"}

\* C9: for group_size 1 the sampled Genealogy has one snapshot and no steps
\* or time steps, depth and length 0, and its graph is the node (0, 0) alone.
C9_SingleElementGenealogy ==
    (len(state) = 1 /\ (genealogy # <<>> \/ answer.op # "none")) =>
        /\ Len(Held.path) = 1
        /\ Held.steps = <<>>
        /\ Held.time_steps = <<>>
        /\ answer.op = "depth" => answer.value = 0
        /\ answer.op = "length" => answer.value = 0
        /\ answer.op = "into" => answer.value = [nodes |-> <<<<0, 0>>>>, edges |-> <<>>]

C9_Witness ==
    /\ len(state) = 1
    /\ answer.op = "into"
    /\ Len(answer.value.nodes) = 1

\* C10: peek_next_step leaves the partition (and everything but the generator
\* of the process, so also a caller's source that is no handle to it) as it
\* was, and from k >= 2 sets returns two different indices below group_size
\* that lie in two different sets.
C10_PeekDoesNotMutate ==
    last.op = "peek_next_step" =>
        /\ state = last.preState
        /\ ~Together("ext", "rng") => ext = last.preExt
        /\ amount_of_sets(state) >= 2 =>
            /\ last.kind = "Some"
            /\ last.pair[1] # last.pair[2]
            /\ last.pair[1] \in 0..(len(state) - 1)
            /\ last.pair[2] \in 0..(len(state) - 1)
            /\ ~same_set(state, last.pair[1], last.pair[2])

C10_Witness ==
    /\ last.op = "peek_next_step"
    /\ last.kind = "Some"
    /\ amount_of_sets(state) = 2
    /\ len(state) = 3

-----------------------------------------------------------------------------
(* The derived quantities of a Genealogy.                                  *)

\* The merge event (0-indexed) after which index_1 and index_2 first share a
\* set: path[m + 1] (0-indexed) is the first snapshot that holds them together.
MergeEvent(g, index_1, index_2) ==
    MinOf({m \in 0..(Len(g.steps) - 1) : same_set(g.path[m + 2], index_1, index_2)})

\* The waiting times of the events 0..m, added up.
TimeThrough(g, m) == SumSeq([i \in 1..(m + 1) |-> g.time_steps[i]])

\* The answer to a divergence query on two different values.
DivergenceOfTwo ==
    /\ answer.op = "divergence"
    /\ answer.args[1] # answer.args[2]

\* C11 as stated: divergence(index_1, index_2) is twice the waiting times
\* before the event m that first puts the two values in one set, the waiting
\* time of event m itself left out.
C11_DivergenceExcludesMergeTime ==
    DivergenceOfTwo =>
        LET m == MergeEvent(Held, answer.args[1], answer.args[2])
        IN  answer.value = 2 * (TimeThrough(Held, m) - Held.time_steps[m + 1])

\* C11 amended: divergence(index_1, index_2) is twice the waiting times up to
\* and including that of the event m that first puts the two values in one
\* set: 2 * (time_steps[0] + ... + time_steps[m]).
C11_DivergenceIncludesMergeTime ==
    DivergenceOfTwo =>
        LET m == MergeEvent(Held, answer.args[1], answer.args[2])
        IN  answer.value = 2 * TimeThrough(Held, m)

\* Two values that are first united by the second event of three.
C11_Witness ==
    /\ DivergenceOfTwo
    /\ MergeEvent(Held, answer.args[1], answer.args[2]) = 1
    /\ answer.value = 2 * (Held.time_steps[1] + Held.time_steps[2])

\* A Genealogy has been sampled: it is held or was moved into the last query.
Sampled == genealogy # <<>> \/ answer.op # "none"

\* The quotient q is the number v.
QuotientIs(q, v) == q.den # 0 /\ q.num = v * q.den

\* C12: a Genealogy of group_size 2 has exactly one event, its path[1] is one
\* set that holds both values, divergence(0, 1) is 2 * time_steps[0], and
\* mean_pairwise_divergence() is divergence(0, 1).
C12_GroupOfTwo ==
    (Sampled /\ len(Held.path[1]) = 2) =>
        /\ Len(Held.steps) = 1
        /\ Len(Held.time_steps) = 1
        /\ Len(Held.path) = 2
        /\ amount_of_sets(Held.path[2]) = 1
        /\ same_set(Held.path[2], 0, 1)
        /\ (answer.op = "divergence" /\ answer.args = <<0, 1>>) =>
               answer.value = 2 * Held.time_steps[1]
        /\ answer.op = "mean_pairwise_divergence" =>
               QuotientIs(answer.value, divergence(Held, 0, 1))

\* The mean of a group of two was asked for, and is twice a positive time.
C12_Witness ==
    /\ answer.op = "mean_pairwise_divergence"
    /\ len(Held.path[1]) = 2
    /\ Held.time_steps[1] > 0
    /\ QuotientIs(answer.value, 2 * Held.time_steps[1])

\* The unordered pairs of different values of a group.
UnorderedPairs(group_size) ==
    {pair \in (0..(group_size - 1)) \X (0..(group_size - 1)) : pair[1] < pair[2]}

\* divergence added over a set of pairs.
RECURSIVE SumDivergence(_, _)
SumDivergence(g, pairs) ==
    IF pairs = {} THEN 0
    ELSE LET pair == CHOOSE x \in pairs : TRUE
         IN  divergence(g, pair[1], pair[2]) + SumDivergence(g, pairs \ {pair})

\* C13: for group_size >= 2, mean_pairwise_divergence() is the mean of
\* divergence(a, b) over the n(n-1)/2 unordered pairs a < b, and the total of
\* its sweep over the events is the sum of divergence over those pairs.
C13_MeanOfPairwiseDivergence ==
    (answer.op = "mean_pairwise_divergence" /\ len(Held.path[1]) >= 2) =>
        LET pairs == UnorderedPairs(len(Held.path[1]))
            total == SumDivergence(Held, pairs)
        IN  /\ 2 * Cardinality(pairs) = len(Held.path[1]) * (len(Held.path[1]) - 1)
            /\ sweep(Held, 0, 0, 0) = total
            /\ answer.value.den # 0
            /\ answer.value.num * Cardinality(pairs) = total * answer.value.den

\* The mean was asked of a group of three whose pairs diverge differently.
C13_Witness ==
    /\ answer.op = "mean_pairwise_divergence"
    /\ len(Held.path[1]) = 3
    /\ \E a, b \in UnorderedPairs(3) :
           divergence(Held, a[1], a[2]) < divergence(Held, b[1], b[2])
    /\ answer.value.num * 3 = SumDivergence(Held, UnorderedPairs(3)) * answer.value.den

\* C14: length() is the sum over the events i (0-indexed) of
\* (n - i) * time_steps[i], n - i being the number of sets of path[i], the
\* lineages present during the waiting time.
C14_LengthWeightsByLineages ==
    answer.op = "length" =>
        LET n == len(Held.path[1])
            lineages == [i \in 1..Len(Held.time_steps) |-> amount_of_sets(Held.path[i])]
        IN  /\ \A i \in 1..Len(Held.time_steps) : lineages[i] = n - (i - 1)
            /\ answer.value =
                   SumSeq([i \in 1..Len(Held.time_steps) |-> lineages[i] * Held.time_steps[i]])

\* The length of a tree of three: 3 * time_steps[0] + 2 * time_steps[1].
C14_Witness ==
    /\ answer.op = "length"
    /\ len(Held.path[1]) = 3
    /\ answer.value = 3 * Held.time_steps[1] + 2 * Held.time_steps[2]
    /\ answer.value > depth(Held)

\* C15: divergence(a, b) = divergence(b, a) for all valid a and b, and
\* divergence(a, a) = 0.
C15_DivergenceSymmetric ==
    answer.op = "divergence" =>
        /\ answer.value = divergence(Held, answer.args[2], answer.args[1])
        /\ answer.args[1] = answer.args[2] => answer.value = 0
        /\ \A a \in 0..(len(Held.path[1]) - 1) : divergence(Held, a, a) = 0

\* A positive divergence was asked with the larger index first.
C15_Witness ==
    /\ answer.op = "divergence"
    /\ answer.args[1] > answer.args[2]
    /\ answer.value > 0
    /\ answer.value = divergence(Held, answer.args[2], answer.args[1])

-----------------------------------------------------------------------------
(* The graph of a Genealogy.                                               *)

\* C16: the graph of a Genealogy of group_size n >= 2 has 2n - 1 nodes and
\* 2(n - 1) edges; for n = 1 it has one node and no edge.
C16_GraphSize ==
    answer.op = "into" =>
        LET n == len(Held.path[1])
        IN  /\ n >= 2 => /\ Len(answer.value.nodes) = 2 * n - 1
                         /\ Len(answer.value.edges) = 2 * (n - 1)
            /\ n = 1 => /\ Len(answer.value.nodes) = 1
                        /\ Len(answer.value.edges) = 0

\* The graph of a group of three: five nodes and four edges.
C16_Witness ==
    /\ answer.op = "into"
    /\ len(Held.path[1]) = 3
    /\ Len(answer.value.nodes) = 5
    /\ Len(answer.value.edges) = 4

\* The queries that borrow the Genealogy.
Queries == {"depth", "length", "divergence", "mean_pairwise_divergence"}

\* C17: the cached graph is absent right after sample_genealogy and stays
\* absent under depth, length, divergence and mean_pairwise_divergence; it is
\* computed at most once per Genealogy: a request finds the cache empty, runs
\* the construction and takes the Genealogy with it, and a Genealogy whose
\* cache is filled gives back the cached graph.
C17_GraphCache ==
    /\ genealogy # <<>> => genealogy[1].graph = <<>>
    /\ answer.op \in Queries => answer.of[1].graph = <<>>
    /\ answer.op = "into" =>
           /\ genealogy = <<>>
           /\ answer.of[1].graph = <<>>
           /\ answer.value = compute_graph(answer.of[1])
           /\ into([answer.of[1] EXCEPT !.graph = <<answer.value>>]) = answer.value

\* A Genealogy of three that answered a query and still has no graph.
C17_Witness ==
    /\ answer.op = "mean_pairwise_divergence"
    /\ genealogy # <<>>
    /\ answer.of = genealogy
    /\ len(genealogy[1].path[1]) = 3
    /\ genealogy[1].graph = <<>>

-----------------------------------------------------------------------------
(* The samplers on a process that has made steps.                          *)

\* C18: sample_path and sample_genealogy sample from the current state of
\* the process: the first snapshot of the result is the partition the process
\* was in at the call, and the number of merge events is its number of sets
\* less one.
C18_SamplersStartFromCurrent ==
    (last.op \in Samplers /\ last.kind # "Panic") =>
        LET first  == IF last.op = "sample_path"
                      THEN last.item[1][2] ELSE genealogy[1].path[1]
            events == IF last.op = "sample_path"
                      THEN Len(last.item) - 1 ELSE Len(genealogy[1].steps)
        IN  /\ Blocks(first) = Blocks(last.preState)
            /\ events = amount_of_sets(last.preState) - 1

\* The largest member of a set of numbers.
MaxOf(S) == CHOOSE x \in S : \A y \in S : y <= x

\* The node (0-indexed) created last for the lineage of representative rep
\* among the nodes before `limit`.
LatestNode(nodes, rep, limit) ==
    MaxOf({k \in 0..(limit - 1) : nodes[k + 1][2] = rep})

\* C19: the graph holds the nodes (0, i) of generation 0 and, for the merge
\* event g, exactly one more node (g + 1, r), r the smaller of the smallest
\* members of the two merged sets, with exactly two edges weighted
\* time_steps[g] to the most recently created node of each of the two merged
\* lineages, which are two different nodes created before.
C19_GraphConstruction ==
    answer.op = "into" =>
        LET g     == answer.of[1]
            n     == len(g.path[1])
            nodes == answer.value.nodes
            edges == answer.value.edges
        IN  /\ Len(nodes) = n + Len(g.steps)
            /\ Len(edges) = 2 * Len(g.steps)
            /\ \A i \in 0..(n - 1) : nodes[i + 1] = <<0, i>>
            /\ \A generation \in 0..(Len(g.steps) - 1) :
                   LET p      == g.path[generation + 1]
                       pair   == g.steps[generation + 1]
                       rep_1  == MinOf(SetOf(p, pair[1]))
                       rep_2  == MinOf(SetOf(p, pair[2]))
                       parent == n + generation
                       edge_1 == edges[2 * generation + 1]
                       edge_2 == edges[2 * generation + 2]
                   IN  /\ nodes[parent + 1] = <<generation + 1, MinOf({rep_1, rep_2})>>
                       /\ edge_1 = <<parent, LatestNode(nodes, rep_1, parent),
                                     g.time_steps[generation + 1]>>
                       /\ edge_2 = <<parent, LatestNode(nodes, rep_2, parent),
                                     g.time_steps[generation + 1]>>
                       /\ edge_1[2] # edge_2[2]
                       /\ edge_1[2] < parent /\ edge_2[2] < parent

\* A graph of three whose last event joins the node of the first event, its
\* representative 0 not being a value index of the step.
C19_Witness ==
    /\ answer.op = "into"
    /\ len(answer.of[1].path[1]) = 3
    /\ answer.value.nodes[5] = <<2, 0>>
    /\ answer.of[1].steps[2][1] # 0 /\ answer.of[1].steps[2][2] # 0
    /\ \E i \in {3, 4} : answer.value.edges[i][2] = 3

-----------------------------------------------------------------------------
(* The rate of the waiting time.                                           *)

\* C20: in every non-terminal state reachable from group_size >= 2 the rate
\* given to the exponential distribution is exactly k(k - 1)/2 for the k >= 2
\* sets, the integer division losing nothing, and is at least 1; the failure
\* on a non-positive rate does not happen by any sequence of steps.
C20_RateExactAndPositive ==
    len(state) >= 2 =>
        /\ ~panicked
        /\ amount_of_sets(state) >= 1
        /\ amount_of_sets(state) >= 2 =>
               LET k == amount_of_sets(state)
               IN  /\ 2 * Rate(k) = k * (k - 1)
                   /\ Rate(k) >= 1
        /\ (last.op \in Steppers \cup {"peek_next_step"}
                /\ amount_of_sets(last.preState) >= 2) =>
               LET k == amount_of_sets(last.preState)
               IN  /\ last.kind = "Some"
                   /\ \E unit \in 1..TimeLevels :
                          last.time * k * (k - 1) = 2 * unit * TimeScale

\* A step was made from three sets, at rate 3, and two sets are left.
C20_Witness ==
    /\ last.op = "next_step"
    /\ last.kind = "Some"
    /\ amount_of_sets(last.preState) = 3
    /\ amount_of_sets(state) = 2
    /\ 3 * last.time \in {unit * TimeScale : unit \in 1..TimeLevels}

-----------------------------------------------------------------------------
(* The choice of the two sets.                                             *)

\* The partitions obtained by joining two different sets of the partition.
Joins(blocks) ==
    {(blocks \ {A, B}) \cup {A \cup B} : <<A, B>> \in {x \in blocks \X blocks : x[1] # x[2]}}

\* The partitions a next_step can leave, over the states of the source.
StepSuccessors(p) == {Blocks(next_step(p, r).state) : r \in RngStates}

\* C21: from a state with k >= 2 sets the two chosen set positions are
\* different positions below k, and the partitions that next_step can leave
\* are exactly the k(k - 1)/2 partitions that join two sets of the current
\* one: every unordered pair of sets is merged by some outcome and nothing
\* else is.
C21_MergeChoiceOverAllPairs ==
    (len(state) >= 2 /\ amount_of_sets(state) >= 2) =>
        LET k == amount_of_sets(state)
        IN  /\ \A r \in RngStates :
                   LET set_indexes == choose_multiple_fill(k, r).buf
                   IN  /\ set_indexes[1] # set_indexes[2]
                       /\ set_indexes[1] \in 0..(k - 1)
                       /\ set_indexes[2] \in 0..(k - 1)
            /\ StepSuccessors(state) = Joins(Blocks(state))
            /\ 2 * Cardinality(StepSuccessors(state)) = k * (k - 1)

\* Three sets, and a step that joined the first and the last of them.
C21_Witness ==
    /\ last.op = "next_step"
    /\ amount_of_sets(last.preState) = 3
    /\ Cardinality(StepSuccessors(last.preState)) = 3
    /\ same_set(state, 0, 2)
    /\ ~same_set(state, 0, 1)

-----------------------------------------------------------------------------
(* Termination.                                                            *)

\* The runs of the samplers on a process of n >= 1 elements made exactly
\* n - 1 successful steps.
RunsMakeAllSteps ==
    /\ (last.op = "sample_path" /\ last.kind # "Panic") =>
           Len(last.item) - 1 = len(last.preState) - 1
    /\ (last.op = "sample_genealogy" /\ last.kind # "Panic") =>
           /\ Len(genealogy[1].steps) = len(last.preState) - 1
           /\ Len(genealogy[1].time_steps) = len(last.preState) - 1

\* A step of the process: it succeeds exactly when two sets or more are left
\* and then leaves one set less, so that n - k successful steps lead from the
\* n singletons to k sets.
StepCountsDown ==
    (last'.op \in Steppers /\ last' # last) =>
        /\ last'.kind = (IF amount_of_sets(state) >= 2 THEN "Some" ELSE "None")
        /\ amount_of_sets(state') =
               amount_of_sets(state) - (IF last'.kind = "Some" THEN 1 ELSE 0)

\* C22: for every group_size n >= 1 and every trajectory of the random
\* source, the loop of sample_path and of sample_genealogy ends after exactly
\* n - 1 successful steps, and a process stepped repeatedly from n singletons
\* reaches the single set after exactly n - 1 successful next_step calls.
C22_Termination ==
    /\ [][len(state) >= 1 => (RunsMakeAllSteps' /\ StepCountsDown)]_vars
    /\ (len(state) >= 1) ~> (amount_of_sets(state) = 1)

\* A process of three that has made its second and last step, with a run of
\* two events sampled from it.
C22_Witness ==
    /\ len(state) = 3
    /\ amount_of_sets(state) = 1
    /\ last.op = "next_step"
    /\ last.kind = "Some"
    /\ amount_of_sets(last.preState) = 2
    /\ genealogy # <<>>
    /\ Len(genealogy[1].steps) = 2

-----------------------------------------------------------------------------
(* sample_path and sample_genealogy as two views of one run.               *)

\* The Vec of sample_path and the Genealogy describe the same run: entry k is
\* (time_steps[k - 1], path[k]), with 0 for the time of entry 0.
SameRun(realizations, g) ==
    /\ Len(realizations) = Len(g.path)
    /\ Len(g.time_steps) = Len(g.path) - 1
    /\ \A k \in 1..Len(realizations) :
           /\ realizations[k][2] = g.path[k]
           /\ Blocks(realizations[k][2]) = Blocks(g.path[k])
           /\ realizations[k][1] = (IF k = 1 THEN 0 ELSE g.time_steps[k - 1])

\* C23: started from sources in the same state on processes of the same
\* group size, entry k of sample_path is (time_steps[k-1], path[k]) of the
\* Genealogy (time 0 for k = 0): the partition replayed in sample_genealogy
\* is the state of the internal process after every step, which is what
\* sample_path records; and both leave the caller's source in the same state.
C23_TwoViewsOfOneRun ==
    /\ (last.op = "sample_path" /\ last.kind # "Panic") =>
           LET other == sample_genealogy(last.preState, last.preExt)
           IN  /\ other.kind # "Panic"
               /\ SameRun(last.item, other.genealogy)
               /\ ext = other.rng
    /\ (last.op = "sample_genealogy" /\ last.kind # "Panic") =>
           LET other == sample_path(last.preState, last.preExt)
           IN  /\ other.kind # "Panic"
               /\ SameRun(other.path, genealogy[1])
               /\ ext = other.rng

\* A path of three entries sampled from a process that had made a step; the
\* source moved.
C23_Witness ==
    /\ last.op = "sample_path"
    /\ last.kind # "Panic"
    /\ amount_of_sets(last.preState) = 2
    /\ Len(last.item) = 3
    /\ last.item[3][1] > 0
    /\ ext # last.preExt

-----------------------------------------------------------------------------
(* Divergence as a distance.                                               *)

\* The larger of two numbers.
Max(x, y) == IF x >= y THEN x ELSE y

\* C24: on every sampled Genealogy divergence is an ultrametric: for all
\* valid a, b, c, divergence(a, c) <= max(divergence(a, b), divergence(b, c));
\* and divergence(a, b) <= 2 * depth(), with equality for at least one pair
\* when n >= 2.
C24_DivergenceUltrametric ==
    Sampled =>
        LET g       == Held
            indices == 0..(len(g.path[1]) - 1)
        IN  /\ \A a, b, c \in indices :
                   divergence(g, a, c) <= Max(divergence(g, a, b), divergence(g, b, c))
            /\ \A a, b \in indices : divergence(g, a, b) <= 2 * depth(g)
            /\ answer.op = "divergence" => answer.value <= 2 * depth(g)
            /\ len(g.path[1]) >= 2 =>
                   \E a, b \in indices : a # b /\ divergence(g, a, b) = 2 * depth(g)

\* A divergence below twice the depth was answered on a Genealogy of three:
\* the third value is at twice the depth from both.
C24_Witness ==
    /\ answer.op = "divergence"
    /\ len(Held.path[1]) = 3
    /\ answer.args[1] # answer.args[2]
    /\ answer.value < 2 * depth(Held)
    /\ \E c \in 0..2 :
           /\ divergence(Held, answer.args[1], c) = 2 * depth(Held)
           /\ divergence(Held, c, answer.args[2]) = 2 * depth(Held)

\* The nodes joined to a node of S by an edge, added to S until none is new.
RECURSIVE Connected(_, _)
Connected(S, edges) ==
    LET joined == S \cup {e[2] : e \in {x \in edges : x[1] \in S}}
                    \cup {e[1] : e \in {x \in edges : x[2] \in S}}
    IN  IF joined = S THEN S ELSE Connected(joined, edges)

\* C25: the graph of a sampled Genealogy with n >= 2 is a binary tree: the
\* labels are pairwise different, every node but the one created by the last
\* event is the child end of exactly one edge, every node of generation >= 1
\* is the parent end of exactly two edges, and the graph is connected and
\* acyclic with the last created node, (n - 1, 0), as root.
C25_GraphIsBinaryTree ==
    (answer.op = "into" /\ len(Held.path[1]) >= 2) =>
        LET n       == len(Held.path[1])
            nodes   == answer.value.nodes
            edges   == answer.value.edges
            indices == 0..(Len(nodes) - 1)
            root    == Len(nodes) - 1
            edgeSet == {edges[i] : i \in DOMAIN edges}
            childOf(v)  == {i \in DOMAIN edges : edges[i][2] = v}
            parentOf(v) == {i \in DOMAIN edges : edges[i][1] = v}
        IN  /\ \A v, w \in indices : v # w => nodes[v + 1] # nodes[w + 1]
            /\ nodes[root + 1] = <<n - 1, 0>>
            /\ \A v \in indices :
                   /\ Cardinality(childOf(v)) = (IF v = root THEN 0 ELSE 1)
                   /\ Cardinality(parentOf(v)) = (IF nodes[v + 1][1] >= 1 THEN 2 ELSE 0)
            /\ \A i \in DOMAIN edges :
                   /\ edges[i][1] \in indices
                   /\ edges[i][2] \in indices
                   /\ nodes[edges[i][2] + 1][1] < nodes[edges[i][1] + 1][1]
            /\ Connected({root}, edgeSet) = indices
            /\ Len(edges) = Len(nodes) - 1

\* A tree of three leaves: the root (2, 0) has the node of the first event
\* and a leaf as children.
C25_Witness ==
    /\ answer.op = "into"
    /\ len(Held.path[1]) = 3
    /\ answer.value.nodes[5] = <<2, 0>>
    /\ {answer.value.nodes[answer.value.edges[i][2] + 1][1] : i \in {3, 4}} = {0, 1}
    /\ Connected({4}, {answer.value.edges[i] : i \in 1..4}) = 0..4

-----------------------------------------------------------------------------
(* The divisor of mean_pairwise_divergence.                                *)

\* C26: mean_pairwise_divergence divides by group_size * (group_size - 1),
\* which is not zero exactly when group_size >= 2: for n >= 2 the quotient is
\* a number, for the Genealogy of one element it is 0 divided by 0 and is
\* not 0.
C26_MeanNormalisation ==
    answer.op = "mean_pairwise_divergence" =>
        LET n == len(Held.path[1])
        IN  /\ answer.value.den = n * (n - 1)
            /\ (answer.value.den # 0) <=> (n >= 2)
            /\ n >= 2 => (answer.value.den >= 2 /\ answer.value.num > 0)
            /\ n = 1 => /\ Held.steps = <<>>
                        /\ answer.value = Quotient(0, 0)
                        /\ ~QuotientIs(answer.value, 0)

\* The mean was asked of the Genealogy of one element.
C26_Witness ==
    /\ answer.op = "mean_pairwise_divergence"
    /\ len(Held.path[1]) = 1
    /\ answer.value.num = 0
    /\ answer.value.den = 0

====
